---- MODULE Spec2Model ----
(***************************************************************************)
(* Cart / session state of the storefront front-end (script.js, auth.js,   *)
(* password.js).  The state is the browser's localStorage and              *)
(* sessionStorage, the parts of the document the cart code touches (the    *)
(* cart-count badge, the checkout container), what the last handler was    *)
(* seen to do (the floating message it showed, the navigation it asked     *)
(* for, the exception it threw), and the timers and suspended handlers in  *)
(* flight.                                                                 *)
(*                                                                         *)
(* A stored value is a JSON text, modelled as its sequence of tokens with  *)
(* the separators "," and ":" elided: [{"id":1,"qty":2}] is                *)
(* << "[", "{", "\"id\"", "1", "\"qty\"", "2", "}", "]" >>.                *)
(* JSON.stringify produces such a text and JSON.parse reads one back or    *)
(* throws SyntaxError.                                                     *)
(***************************************************************************)
EXTENDS Integers, Sequences, FiniteSets, TLC

VARIABLES localStorage, sessionStorage, dom, badge, view, href, msg, raised,
          placing, timers, fetches, reads, clicked

vars == <<localStorage, sessionStorage, dom, badge, view, href, msg, raised,
          placing, timers, fetches, reads, clicked>>

(***************************************************************************)
(* Bounds of the model.                                                    *)
(***************************************************************************)
\* largest quantity a line item is driven to
MaxQty == 2
\* place-order handlers suspended in their 1.2 s wait at one time
MaxPlacing == 1
\* add-to-cart clicks of one product whose fetch is in flight at one time
MaxFetches == 2

(***************************************************************************)
(* Input domains.                                                          *)
(***************************************************************************)
\* products of the catalogue (fakestoreapi): id and price
Catalog == { [id |-> 1, price |-> 3], [id |-> 2, price |-> 4] }
ProductIds == { p.id : p \in Catalog }
\* registration / login form inputs
Emails == { "a@x.io", "b@x.io" }
\* the principal of the single-user specifications
OneEmail == { "a@x.io" }
Names == { "Al" }
Passwords == { "secret" }
Addresses == { "NY" }
\* quantity deltas passed to updateQuantity
Deltas == { -2, -1, 1 }
\* an email no form accepts, which a stored record can still carry
OddEmails == { "guest" }
\* what the profile form and the reset form change a record to
NewNames == { "Bo" }
NewPasswords == { "hunter22" }

(***************************************************************************)
(* JSON texts.                                                             *)
(***************************************************************************)
\* key order of JSON.stringify: insertion order of the object literals
KeyOrder == << "id", "price", "qty", "name", "email", "password", "address" >>
NumKeys == { "id", "price", "qty" }
\* numbers and strings the texts of the model contain
JsNumbers == 0 .. (MaxQty + 4)
JsStrings == { KeyOrder[i] : i \in 1 .. Len(KeyOrder) }
                \cup Emails \cup Names \cup Passwords \cup Addresses
                \cup OddEmails \cup NewNames \cup NewPasswords

Quote(s) == "\"" \o s \o "\""
NumTokens == { ToString(n) : n \in JsNumbers }
StrTokens == { Quote(s) : s \in JsStrings }
ValueTokens == NumTokens \cup StrTokens
\* the string a string token quotes, the number a number token writes
Unquote == [t \in StrTokens |-> CHOOSE s \in JsStrings : Quote(s) = t]
NumOf == [t \in NumTokens |-> CHOOSE n \in JsNumbers : ToString(n) = t]

ValueToken(k, v) == IF k \in NumKeys THEN ToString(v) ELSE Quote(v)

RECURSIVE ObjectTokens(_, _)
ObjectTokens(obj, i) ==
    IF i > Len(KeyOrder) THEN << >>
    ELSE LET k == KeyOrder[i]
         IN (IF k \in DOMAIN obj THEN << Quote(k), ValueToken(k, obj[k]) >>
                                 ELSE << >>)
            \o ObjectTokens(obj, i + 1)

StringifyObject(obj) == << "{" >> \o ObjectTokens(obj, 1) \o << "}" >>

RECURSIVE StringifyItems(_)
StringifyItems(arr) ==
    IF arr = << >> THEN << >>
    ELSE StringifyObject(Head(arr)) \o StringifyItems(Tail(arr))

\* JSON.stringify of an array of objects
StringifyArray(arr) == << "[" >> \o StringifyItems(arr) \o << "]" >>

\* a parse result: kind is "error" (SyntaxError), "null", "array", "object"
ParseError == [kind |-> "error", val |-> << >>]

\* the tokens between "{" and "}": key/value pairs, the last of equal keys wins
MembersOk(seg) ==
    /\ Len(seg) % 2 = 0
    /\ \A n \in 1 .. Len(seg) :
          IF n % 2 = 1 THEN seg[n] \in StrTokens
                       ELSE seg[n] \in ValueTokens
MembersValue(seg) ==
    LET keys == { Unquote[seg[n]] : n \in { m \in 1 .. Len(seg) : m % 2 = 1 } }
        last(k) == CHOOSE n \in 1 .. Len(seg) :
                      /\ n % 2 = 1 /\ seg[n] = Quote(k)
                      /\ \A m \in n + 1 .. Len(seg) :
                            m % 2 = 1 => seg[m] # seg[n]
        value(t) == IF t \in NumTokens THEN NumOf[t] ELSE Unquote[t]
    IN [k \in keys |-> value(seg[last(k) + 1])]

\* index of the first "}" at or after i, or 0
RECURSIVE CloseAt(_, _)
CloseAt(toks, i) ==
    IF i > Len(toks) THEN 0
    ELSE IF toks[i] = "}" THEN i
    ELSE CloseAt(toks, i + 1)

\* the elements of an array text from position i on, acc the ones read
RECURSIVE ParseElements(_, _, _)
ParseElements(toks, i, acc) ==
    IF i > Len(toks) THEN ParseError
    ELSE IF toks[i] = "]"
         THEN IF i = Len(toks) THEN [kind |-> "array", val |-> acc] ELSE ParseError
    ELSE IF toks[i] = "{"
         THEN LET j == CloseAt(toks, i + 1)
                  seg == IF j = 0 THEN << >> ELSE SubSeq(toks, i + 1, j - 1)
              IN IF j = 0 \/ ~MembersOk(seg) THEN ParseError
                 ELSE ParseElements(toks, j + 1, Append(acc, MembersValue(seg)))
    ELSE ParseError

\* JSON.parse
JSONparse(toks) ==
    IF toks = << >> THEN ParseError
    ELSE IF toks = << "null" >> THEN [kind |-> "null", val |-> << >>]
    ELSE IF toks[1] = "[" THEN ParseElements(toks, 2, << >>)
    ELSE IF toks[1] = "{"
         THEN LET seg == SubSeq(toks, 2, Len(toks) - 1)
              IN IF Len(toks) >= 2 /\ toks[Len(toks)] = "}" /\ MembersOk(seg)
                 THEN [kind |-> "object", val |-> MembersValue(seg)]
                 ELSE ParseError
    ELSE ParseError

(***************************************************************************)
(* Web Storage.  A store is a function from its present keys to texts.     *)
(***************************************************************************)
NoStorage == [k \in {} |-> << >>]
setItem(store, k, text) ==
    [x \in DOMAIN store \cup {k} |-> IF x = k THEN text ELSE store[x]]
removeKey(store, k) == [x \in DOMAIN store \ {k} |-> store[x]]
\* getItem(k) || fallback : null and the empty string are falsy
getItemOr(store, k, fallback) ==
    IF k \in DOMAIN store /\ store[k] # << >> THEN store[k] ELSE fallback

(***************************************************************************)
(* Values returned by the reading functions: err is "none" or the name of  *)
(* the exception thrown, kind and val the value when none was thrown.      *)
(***************************************************************************)
Thrown(e) == [err |-> e, kind |-> "null", val |-> << >>]
Returned(p) ==
    IF p.kind = "error" THEN Thrown("SyntaxError")
    ELSE [err |-> "none", kind |-> p.kind, val |-> p.val]
\* the receiver of an array method (some, find, filter, reduce, forEach)
AsArray(r) ==
    IF r.err # "none" THEN r
    ELSE IF r.kind = "array" THEN r
    ELSE Thrown("TypeError")
Truthy(r) == r.kind \in { "array", "object" }

\* auth.js getCurrentUser
getCurrentUser(ls) == Returned(JSONparse(getItemOr(ls, "activeUser", << "null" >>)))

\* a variant of the key made of the name of the user
cartKeyNamed(user) ==
    IF user.err # "none" THEN [err |-> user.err, key |-> ""]
    ELSE IF Truthy(user)
         THEN [err |-> "none",
               key |-> "fs_cart_" \o
                       (IF user.kind = "object" /\ "name" \in DOMAIN user.val
                        THEN user.val.name ELSE "undefined")]
    ELSE [err |-> "none", key |-> "fs_cart_guest"]

\* a variant of the key that is the same for every user
cartKeyShared(user) ==
    IF user.err # "none" THEN [err |-> user.err, key |-> ""]
    ELSE [err |-> "none", key |-> "fs_cart_guest"]

\* user ? `fs_cart_${user.email}` : 'fs_cart_guest'
cartKeyOf(user) ==
    IF user.err # "none" THEN [err |-> user.err, key |-> ""]
    ELSE IF Truthy(user)
         THEN [err |-> "none",
               key |-> "fs_cart_" \o
                       (IF user.kind = "object" /\ "email" \in DOMAIN user.val
                        THEN user.val.email ELSE "undefined")]
    ELSE [err |-> "none", key |-> "fs_cart_guest"]

\* script.js getCartKey: err and the key
getCartKey(ls) == cartKeyOf(getCurrentUser(ls))

\* JSON.parse(localStorage.getItem(key) || '[]')
cartAt(ls, k) ==
    IF k.err # "none" THEN Thrown(k.err)
    ELSE Returned(JSONparse(getItemOr(ls, k.key, << "[", "]" >>)))

\* script.js getCart
getCart(ls) == cartAt(ls, getCartKey(ls))

HasId(item, id) == "id" \in DOMAIN item /\ item.id = id
QtyOf(item) == IF "qty" \in DOMAIN item THEN item.qty ELSE 0

\* a variant of the reduction that counts the line items, not their quantities
RECURSIVE ReduceItems(_, _)
ReduceItems(arr, sum) ==
    IF arr = << >> THEN sum
    ELSE ReduceItems(Tail(arr), sum + 1)

\* reduce((sum, item) => sum + item.qty, 0)
RECURSIVE ReduceQty(_, _)
ReduceQty(arr, sum) ==
    IF arr = << >> THEN sum
    ELSE ReduceQty(Tail(arr), sum + QtyOf(Head(arr)))

countOf(cart) ==
    IF cart.err # "none" THEN [err |-> cart.err, count |-> 0]
    ELSE [err |-> "none", count |-> ReduceQty(cart.val, 0)]

\* script.js cartCount: err and the count
cartCount(ls) == countOf(AsArray(getCart(ls)))

\* Array.prototype.filter(item => item.id !== id)
RECURSIVE FilterOut(_, _)
FilterOut(arr, id) ==
    IF arr = << >> THEN << >>
    ELSE (IF HasId(Head(arr), id) THEN << >> ELSE << Head(arr) >>)
         \o FilterOut(Tail(arr), id)

\* index of the first item with the id (Array.prototype.find), or 0
RECURSIVE FindIndex(_, _, _)
FindIndex(arr, id, i) ==
    IF i > Len(arr) THEN 0
    ELSE IF HasId(arr[i], id) THEN i
    ELSE FindIndex(arr, id, i + 1)

(***************************************************************************)
(* The machine a handler runs on: the state as one record.  A step of a    *)
(* handler maps a machine to a machine and does nothing once an exception  *)
(* is in flight (raised # "none").                                         *)
(***************************************************************************)
M == [ls |-> localStorage, ss |-> sessionStorage, dom |-> dom, badge |-> badge,
      view |-> view, href |-> href, msg |-> msg, raised |-> raised,
      placing |-> placing, timers |-> timers]

CommitM(m) ==
    /\ localStorage' = m.ls
    /\ sessionStorage' = m.ss
    /\ dom' = m.dom
    /\ badge' = m.badge
    /\ view' = m.view
    /\ href' = m.href
    /\ msg' = m.msg
    /\ raised' = m.raised
    /\ placing' = m.placing
    /\ timers' = m.timers

\* a step of a handler that neither starts nor ends a fetch, a read of
\* another tab or a place-order wait
Commit(m) == CommitM(m) /\ UNCHANGED << fetches, reads, clicked >>

NoMsg == [text |-> "", type |-> ""]
BlankView == [kind |-> "blank", items |-> << >>]
FreshBadge == [text |-> "", hidden |-> FALSE]

\* what a handler is seen to do starts empty: no exception in flight and no
\* message shown
Begin(m) == [m EXCEPT !.msg = NoMsg, !.raised = "none"]
Raise(m, e) == [m EXCEPT !.raised = e]

\* auth.js navigateTo
navigateTo(m, url) ==
    IF m.raised # "none" THEN m ELSE [m EXCEPT !.href = url]

\* script.js showFloatingMessage: msg is the message and type it is called
\* with (the element shows them when the document has one)
showFloatingMessage(m, text, type) ==
    IF m.raised # "none" THEN m
    ELSE [m EXCEPT !.msg = [text |-> text, type |-> type]]

\* cartCountEl.innerText = count; classList.toggle('d-none', count === 0)
setBadge(m, c) ==
    IF c.err # "none" THEN Raise(m, c.err)
    ELSE [m EXCEPT !.badge = [text |-> ToString(c.count), hidden |-> (c.count = 0)]]

\* a variant of updateCartUI that throws when the element is missing
updateCartUIStrict(m) ==
    IF m.raised # "none" THEN m
    ELSE IF ~m.dom.count THEN Raise(m, "TypeError")
    ELSE setBadge(m, cartCount(m.ls))

\* script.js updateCartUI
updateCartUI(m) ==
    IF m.raised # "none" THEN m
    ELSE IF ~m.dom.count THEN m
    ELSE setBadge(m, cartCount(m.ls))

\* a variant of renderCheckout that renders the cart for a guest too
renderIntoGuest(m, user, cart) ==
    IF user.err # "none" THEN Raise(m, user.err)
    ELSE IF cart.err # "none" THEN Raise(m, cart.err)
    ELSE IF Len(cart.val) = 0
         THEN [m EXCEPT !.view = [kind |-> "empty", items |-> << >>]]
    ELSE [m EXCEPT !.view = [kind |-> "items", items |-> cart.val]]

\* renderCheckout once the container is found: the user, then the cart
renderInto(m, user, cart) ==
    IF user.err # "none" THEN Raise(m, user.err)
    ELSE IF ~Truthy(user) THEN navigateTo(m, "login.html")
    ELSE IF cart.err # "none" THEN Raise(m, cart.err)
    ELSE IF Len(cart.val) = 0
         THEN [m EXCEPT !.view = [kind |-> "empty", items |-> << >>]]
    ELSE [m EXCEPT !.view = [kind |-> "items", items |-> cart.val]]

\* script.js renderCheckout
renderCheckout(m) ==
    IF m.raised # "none" THEN m
    ELSE IF ~m.dom.checkout THEN m
    ELSE renderInto(m, getCurrentUser(m.ls), AsArray(getCart(m.ls)))

\* a variant of the write that refreshes the badge before it writes
writeCartStale(m, k, cart) ==
    IF k.err # "none" THEN Raise(m, k.err)
    ELSE renderCheckout(
            [updateCartUI(m) EXCEPT
                !.ls = setItem(m.ls, k.key, StringifyArray(cart))])

\* a variant of the write that ignores the namespace of the principal
writeCartGuest(m, k, cart) ==
    IF k.err # "none" THEN Raise(m, k.err)
    ELSE renderCheckout(updateCartUI(
            [m EXCEPT !.ls = setItem(m.ls, "fs_cart_guest", StringifyArray(cart))]))

\* localStorage.setItem(getCartKey(), JSON.stringify(cart)), then the views
writeCart(m, k, cart) ==
    IF k.err # "none" THEN Raise(m, k.err)
    ELSE renderCheckout(updateCartUI(
            [m EXCEPT !.ls = setItem(m.ls, k.key, StringifyArray(cart))]))

\* script.js saveCart
saveCart(m, cart) ==
    IF m.raised # "none" THEN m ELSE writeCart(m, getCartKey(m.ls), cart)

\* a variant of the new line item that starts at quantity 2
LineItemTwo(product) ==
    [k \in DOMAIN product \cup {"qty"} |-> IF k = "qty" THEN 2 ELSE product[k]]

\* { ...product, qty: 1 }
LineItem(product) ==
    [k \in DOMAIN product \cup {"qty"} |-> IF k = "qty" THEN 1 ELSE product[k]]

\* a variant of addToCart without the check of the active user
addItemGuest(m, user, cart, product) ==
    IF user.err # "none" THEN Raise(m, user.err)
    ELSE IF cart.err # "none" THEN Raise(m, cart.err)
    ELSE IF \E i \in 1 .. Len(cart.val) : HasId(cart.val[i], product.id)
         THEN showFloatingMessage(m, "Product already in cart!", "danger")
    ELSE showFloatingMessage(saveCart(m, Append(cart.val, LineItem(product))),
                             "Product added to cart!", "success")

\* a variant of addToCart without the check for the id in the cart
addItemTwice(m, user, cart, product) ==
    IF user.err # "none" THEN Raise(m, user.err)
    ELSE IF ~Truthy(user)
         THEN showFloatingMessage(m, "Please login first!", "danger")
    ELSE IF cart.err # "none" THEN Raise(m, cart.err)
    ELSE showFloatingMessage(saveCart(m, Append(cart.val, LineItem(product))),
                             "Product added to cart!", "success")

\* addToCart once the user and the cart are read
addItem(m, user, cart, product) ==
    IF user.err # "none" THEN Raise(m, user.err)
    ELSE IF ~Truthy(user)
         THEN showFloatingMessage(m, "Please login first!", "danger")
    ELSE IF cart.err # "none" THEN Raise(m, cart.err)
    ELSE IF \E i \in 1 .. Len(cart.val) : HasId(cart.val[i], product.id)
         THEN showFloatingMessage(m, "Product already in cart!", "danger")
    ELSE showFloatingMessage(saveCart(m, Append(cart.val, LineItem(product))),
                             "Product added to cart!", "success")

\* script.js addToCart
addToCart(m, product) ==
    IF m.raised # "none" THEN m
    ELSE addItem(m, getCurrentUser(m.ls), AsArray(getCart(m.ls)), product)

\* a variant of the change that sets the quantity to the change
WithQtySet(arr, i, change) ==
    [arr EXCEPT ![i] = [k \in DOMAIN arr[i] \cup {"qty"} |->
                          IF k = "qty" THEN change ELSE arr[i][k]]]

\* item.qty += change on the item at index i
WithQty(arr, i, change) ==
    [arr EXCEPT ![i] = [k \in DOMAIN arr[i] \cup {"qty"} |->
                          IF k = "qty" THEN QtyOf(arr[i]) + change ELSE arr[i][k]]]

\* a variant of updateQuantity that stores the cart without the removed item
\* itself, the views not refreshed
changeAtQuiet(m, arr, i, id, change) ==
    IF i = 0 THEN m
    ELSE IF QtyOf(arr[i]) + change <= 0
         THEN [m EXCEPT !.ls = setItem(m.ls, getCartKey(m.ls).key,
                                       StringifyArray(FilterOut(arr, id)))]
    ELSE saveCart(m, WithQty(arr, i, change))

\* a variant of updateQuantity that keeps an item whose quantity reaches 0
changeAtKeep(m, arr, i, id, change) ==
    IF i = 0 THEN m
    ELSE IF QtyOf(arr[i]) + change < 0
         THEN saveCart(m, FilterOut(WithQty(arr, i, change), id))
    ELSE saveCart(m, WithQty(arr, i, change))

\* updateQuantity once the item is looked up: i its index, 0 when not found
changeAt(m, arr, i, id, change) ==
    IF i = 0 THEN m
    ELSE IF QtyOf(arr[i]) + change <= 0
         THEN saveCart(m, FilterOut(WithQty(arr, i, change), id))
    ELSE saveCart(m, WithQty(arr, i, change))

\* a variant of updateQuantity that saves the cart when the item is not found
changeInSaves(m, cart, id, change) ==
    IF cart.err # "none" THEN Raise(m, cart.err)
    ELSE IF FindIndex(cart.val, id, 1) = 0 THEN saveCart(m, cart.val)
    ELSE changeAt(m, cart.val, FindIndex(cart.val, id, 1), id, change)

\* updateQuantity once the cart is read
changeIn(m, cart, id, change) ==
    IF cart.err # "none" THEN Raise(m, cart.err)
    ELSE changeAt(m, cart.val, FindIndex(cart.val, id, 1), id, change)

\* script.js updateQuantity
updateQuantity(m, id, change) ==
    IF m.raised # "none" THEN m
    ELSE changeIn(m, AsArray(getCart(m.ls)), id, change)

\* a variant of removeItem that drops the first line item, whatever its id
removeFromHead(m, cart, id) ==
    IF cart.err # "none" THEN Raise(m, cart.err)
    ELSE saveCart(m, IF cart.val = << >> THEN << >> ELSE Tail(cart.val))

\* removeItem once the cart is read
removeFrom(m, cart, id) ==
    IF cart.err # "none" THEN Raise(m, cart.err)
    ELSE saveCart(m, FilterOut(cart.val, id))

\* script.js removeItem
removeItem(m, id) ==
    IF m.raised # "none" THEN m
    ELSE removeFrom(m, AsArray(getCart(m.ls)), id)

(***************************************************************************)
(* Authentication handlers (auth.js, password.js).                         *)
(***************************************************************************)
\* form inputs besides the addresses: an empty field, and a text the e-mail
\* pattern rejects
BadEmails == { "", "nobody" }
PasswordInputs == Passwords \cup { "abc" }
\* auth.js validateEmail: /\S+@\S+\.\S+/ on the inputs above
validateEmail(email) == email \in { "a@x.io", "b@x.io" }
\* password.length < 6 on the inputs above
TooShort(password) == password \in { "", "abc" }

\* users.find(u => u.email === email && u.password === password): index or 0
RECURSIVE FindUser(_, _, _, _)
FindUser(users, email, password, i) ==
    IF i > Len(users) THEN 0
    ELSE IF /\ "email" \in DOMAIN users[i] /\ users[i].email = email
            /\ "password" \in DOMAIN users[i] /\ users[i].password = password
         THEN i
    ELSE FindUser(users, email, password, i + 1)

HasEmail(users, email) ==
    \E i \in 1 .. Len(users) : "email" \in DOMAIN users[i] /\ users[i].email = email

\* JSON.parse(localStorage.getItem('users') || '[]')
readUsers(ls) == AsArray(Returned(JSONparse(getItemOr(ls, "users", << "[", "]" >>))))

\* String(fallback), the text JSON.parse is handed when the fallback of readLS
\* is used: null and 'null' read "null", the array [] reads ""
FallbackText(fallback) ==
    IF fallback \in { "null", "'null'" } THEN << "null" >> ELSE << >>

\* password.js readLS
readLS(ls, key, fallback) ==
    Returned(JSONparse(getItemOr(ls, key, FallbackText(fallback))))

\* a variant of logout that clears the entry of the session, not the stored one
logoutSession(m) ==
    navigateTo([m EXCEPT !.ss = removeKey(m.ss, "activeUser")], "login.html")

\* a variant of logout that also removes the cart of the user
logoutClearsCart(m) ==
    navigateTo([m EXCEPT !.ls = removeKey(removeKey(m.ls, getCartKey(m.ls).key),
                                          "activeUser")],
               "login.html")

\* auth.js logout
logout(m) == navigateTo([m EXCEPT !.ls = removeKey(m.ls, "activeUser")], "login.html")

\* a variant of the registration that stores the user and logs nobody in
registerUserOnly(m, users, newUser) ==
    IF users.err # "none" THEN Raise(m, users.err)
    ELSE IF HasEmail(users.val, newUser.email) THEN m
    ELSE [m EXCEPT
            !.ls = setItem(m.ls, "users",
                           StringifyArray(Append(users.val, newUser))),
            !.timers = m.timers \cup { "index.html" }]

\* a variant of the registration that accepts an email already registered
registerUserAgain(m, users, newUser) ==
    IF users.err # "none" THEN Raise(m, users.err)
    ELSE [m EXCEPT
            !.ls = setItem(setItem(m.ls, "users",
                                   StringifyArray(Append(users.val, newUser))),
                           "activeUser", StringifyObject(newUser)),
            !.timers = m.timers \cup { "index.html" }]

\* the registration once the fields are validated and the users list is read
registerUser(m, users, newUser) ==
    IF users.err # "none" THEN Raise(m, users.err)
    ELSE IF HasEmail(users.val, newUser.email) THEN m
    ELSE [m EXCEPT
            !.ls = setItem(setItem(m.ls, "users",
                                   StringifyArray(Append(users.val, newUser))),
                           "activeUser", StringifyObject(newUser)),
            !.timers = m.timers \cup { "index.html" }]

\* auth.js setupRegisterPage, the submit handler
registerSubmit(m, name, email, password, address) ==
    IF name = "" \/ email = "" \/ password = "" \/ address = "" THEN m
    ELSE IF ~validateEmail(email) THEN m
    ELSE IF TooShort(password) THEN m
    ELSE registerUser(m, readUsers(m.ls),
                      [name |-> name, email |-> email,
                       password |-> password, address |-> address])

\* localStorage.setItem('activeUser', ...) and the rememberedEmail entry
rememberIn(ls, user, email, rememberMe) ==
    IF rememberMe
    THEN setItem(setItem(ls, "activeUser", StringifyObject(user)),
                 "rememberedEmail", << Quote(email) >>)
    ELSE removeKey(setItem(ls, "activeUser", StringifyObject(user)),
                   "rememberedEmail")

setupLoginFind(m, users, i, email, rememberMe) ==
    IF users.err # "none" THEN Raise(m, users.err)
    ELSE IF i = 0 THEN m
    ELSE [m EXCEPT !.ls = rememberIn(m.ls, users.val[i], email, rememberMe),
                   !.timers = m.timers \cup { "index.html" }]

setupLoginWith(m, users, email, password, rememberMe) ==
    setupLoginFind(m, users, FindUser(users.val, email, password, 1),
                   email, rememberMe)

\* auth.js setupLoginPage, the submit handler
setupLoginSubmit(m, email, password, rememberMe) ==
    IF email = "" \/ password = "" THEN m
    ELSE IF ~validateEmail(email) THEN m
    ELSE setupLoginWith(m, readUsers(m.ls), email, password, rememberMe)

initLoginFind(m, users, i, rememberMe) ==
    IF users.err # "none" THEN Raise(m, users.err)
    ELSE IF i = 0 THEN m
    ELSE IF rememberMe
         THEN [m EXCEPT
                 !.ls = setItem(m.ls, "activeUser", StringifyObject(users.val[i])),
                 !.ss = removeKey(m.ss, "activeUser"),
                 !.timers = m.timers \cup { "index.html" }]
    ELSE [m EXCEPT
            !.ss = setItem(m.ss, "activeUser", StringifyObject(users.val[i])),
            !.ls = removeKey(m.ls, "activeUser"),
            !.timers = m.timers \cup { "index.html" }]

initLoginWith(m, users, email, password, rememberMe) ==
    initLoginFind(m, users, FindUser(users.val, email, password, 1), rememberMe)

\* password.js initLoginPage, the login submit handler
initLoginSubmit(m, email, password, rememberMe) ==
    IF email = "" \/ password = "" THEN m
    ELSE initLoginWith(m, AsArray(readLS(m.ls, "users", "[]")),
                       email, password, rememberMe)

\* an exception thrown by the first listener does not stop the second
afterFirst(first, second) ==
    IF first.raised # "none" THEN [second EXCEPT !.raised = first.raised]
    ELSE second

\* a variant of the submit event with the listener of password.js alone
secondListenerNone(first, email, password, rememberMe) == first

secondListener(first, email, password, rememberMe) ==
    afterFirst(first, setupLoginSubmit([first EXCEPT !.raised = "none"],
                                       email, password, rememberMe))

\* the submit event of the login form: the listener of password.js (added
\* when script.js is evaluated), then the one of auth.js (added on
\* DOMContentLoaded)
loginFormSubmit(m, email, password, rememberMe) ==
    secondListener(initLoginSubmit(m, email, password, rememberMe),
                   email, password, rememberMe)

(***************************************************************************)
(* Profile page (auth.js setupProfilePage) and reset-password page         *)
(* (password.js initResetPasswordPage).  The user read when the page is    *)
(* set up, and the email of the reset link, are kept in the document: the  *)
(* handlers close over them.                                               *)
(***************************************************************************)
\* u.email, undefined (no value) when the record has none
EmailOf(u) == IF "email" \in DOMAIN u THEN << u.email >> ELSE << >>

\* { ...user, name, address }
Updated(user, name, address) ==
    [k \in DOMAIN user \cup { "name", "address" } |->
        IF k = "name" THEN name ELSE IF k = "address" THEN address ELSE user[k]]

\* users.map(u => u.email === updatedUser.email ? updatedUser : u)
MapUsers(users, updatedUser) ==
    [i \in 1 .. Len(users) |->
        IF EmailOf(users[i]) = EmailOf(updatedUser) THEN updatedUser ELSE users[i]]

\* users.filter(u => u.email !== user.email)
RECURSIVE FilterUsers(_, _)
FilterUsers(users, user) ==
    IF users = << >> THEN << >>
    ELSE (IF EmailOf(Head(users)) = EmailOf(user) THEN << >> ELSE << Head(users) >>)
         \o FilterUsers(Tail(users), user)

\* users.find(u => u.email === email): index or 0
RECURSIVE FindEmail(_, _, _)
FindEmail(users, email, i) ==
    IF i > Len(users) THEN 0
    ELSE IF EmailOf(users[i]) = << email >> THEN i
    ELSE FindEmail(users, email, i + 1)

\* the second half of the update handler: the users list read and mapped
profileMap(m, users, updatedUser) ==
    IF users.err # "none" THEN Raise(m, users.err)
    ELSE [m EXCEPT !.ls = setItem(m.ls, "users",
                                  StringifyArray(MapUsers(users.val, updatedUser)))]

\* localStorage.setItem('activeUser', JSON.stringify(updatedUser))
profileStore(m, updatedUser) ==
    [m EXCEPT !.ls = setItem(m.ls, "activeUser", StringifyObject(updatedUser))]

profileWith(m, updatedUser) ==
    profileMap(m, AsArray(readUsers(m.ls)), updatedUser)

\* auth.js setupProfilePage, the submit handler of the profile form
profileSubmit(m, name, address) ==
    profileWith(profileStore(m, Updated(m.dom.user, name, address)),
                Updated(m.dom.user, name, address))

\* the second half of the delete handler: the users list read and filtered
deleteFrom(m, users) ==
    IF users.err # "none" THEN Raise(m, users.err)
    ELSE [m EXCEPT !.ls = setItem(m.ls, "users",
                                  StringifyArray(FilterUsers(users.val, m.dom.user))),
                   !.timers = m.timers \cup { "index.html" }]

\* auth.js setupProfilePage, the click handler of the delete button
deleteClick(m) ==
    deleteFrom([m EXCEPT !.ls = removeKey(m.ls, "activeUser")],
               AsArray(readUsers(removeKey(m.ls, "activeUser"))))

\* the page set up: the user read; none, and the page navigates to the login
profileSetup(m, user) ==
    IF user.err # "none" THEN Raise(m, user.err)
    ELSE IF ~Truthy(user) THEN navigateTo(m, "login.html")
    ELSE [m EXCEPT !.dom = [page |-> "profile", count |-> m.dom.count,
                            checkout |-> FALSE, user |-> user.val]]

\* user.password = pass1; writeLS('users', users)
resetAt(m, users, i, pass1) ==
    IF users.err # "none" THEN Raise(m, users.err)
    ELSE IF i = 0 THEN m
    ELSE [m EXCEPT
            !.ls = setItem(m.ls, "users",
                           StringifyArray(
                              [users.val EXCEPT ![i] =
                                 [k \in DOMAIN @ \cup { "password" } |->
                                     IF k = "password" THEN pass1 ELSE @[k]]])),
            !.timers = m.timers \cup { "login.html" }]

resetWith(m, users, pass1) ==
    resetAt(m, users, FindEmail(users.val, m.dom.email, 1), pass1)

\* password.js initResetPasswordPage, the click handler of the submit button
resetSubmit(m, pass1, pass2) ==
    IF pass1 = "" \/ pass2 = "" THEN m
    ELSE IF pass1 # pass2 THEN m
    ELSE resetWith(m, AsArray(readLS(m.ls, "users", "[]")), pass1)

(***************************************************************************)
(* Checkout page handlers (script.js renderCheckout).                      *)
(***************************************************************************)
\* the quantity and remove buttons: the operation, then renderCheckout again
checkoutClick(m, id, button) ==
    IF button = "qty-increase" THEN renderCheckout(updateQuantity(m, id, 1))
    ELSE IF button = "qty-decrease" THEN renderCheckout(updateQuantity(m, id, -1))
    ELSE renderCheckout(removeItem(m, id))

\* setTimeout(() => navigateTo('store.html'), 1500), the last statement
thenToStore(m) ==
    IF m.raised # "none" THEN m
    ELSE [m EXCEPT !.timers = m.timers \cup { "store.html" }]

\* a variant of the continuation that refreshes the views before it removes
\* the entry
placeOrderAtStale(m, k) ==
    IF k.err # "none" THEN Raise(m, k.err)
    ELSE thenToStore(showFloatingMessage(
            [renderCheckout(updateCartUI(m)) EXCEPT !.ls = removeKey(m.ls, k.key)],
            "Order placed successfully!", "success"))

\* the continuation once the key is read: removeItem, the views, the message
placeOrderAt(m, k) ==
    IF k.err # "none" THEN Raise(m, k.err)
    ELSE thenToStore(showFloatingMessage(
            renderCheckout(updateCartUI([m EXCEPT !.ls = removeKey(m.ls, k.key)])),
            "Order placed successfully!", "success"))

\* the place-order handler after its 1.2 s wait
placeOrderResume(m) == placeOrderAt(m, getCartKey(m.ls))

(***************************************************************************)
(* Page load.                                                              *)
(***************************************************************************)
\* a document: the page of its <body data-page>, and the elements the cart
\* code looks up, present or not; the checkout container is on no form page
DomKinds ==
    { d \in [page : { "login", "register", "other" },
             count : BOOLEAN, checkout : BOOLEAN] :
        d.checkout => d.page = "other" }

navFor(m, user) ==
    IF user.err # "none" THEN Raise(m, user.err) ELSE updateCartUI(m)

\* script.js updateNav: reads the user, then updateCartUI
updateNav(m) ==
    IF m.raised # "none" THEN m ELSE navFor(m, getCurrentUser(m.ls))

\* a fresh document, then the DOMContentLoaded listener of script.js
pageLoad(ls, ss, d) ==
    renderCheckout(updateNav(
       [ls |-> ls, ss |-> ss, dom |-> d, badge |-> FreshBadge, view |-> BlankView,
        href |-> "", msg |-> NoMsg, raised |-> "none", placing |-> 0,
        timers |-> {}]))

\* a fresh document
freshPage(ls, ss, d) ==
    [ls |-> ls, ss |-> ss, dom |-> d, badge |-> FreshBadge, view |-> BlankView,
     href |-> "", msg |-> NoMsg, raised |-> "none", placing |-> 0, timers |-> {}]

\* the DOMContentLoaded listener of script.js, run after the one of auth.js
profileThen(first) ==
    afterFirst(first, renderCheckout(updateNav([first EXCEPT !.raised = "none"])))

\* the load of profile.html: the listener of auth.js sets the page up, then
\* the one of script.js runs
profileLoad(ls, ss, count) ==
    profileThen(
       profileSetup(freshPage(ls, ss, [page |-> "profile", count |-> count,
                                       checkout |-> FALSE]),
                    getCurrentUser(ls)))

\* the load of reset-password.html?email=...
resetLoad(ls, ss, count, email) ==
    pageLoad(ls, ss, [page |-> "reset-password", count |-> count,
                      checkout |-> FALSE, email |-> email])

(***************************************************************************)
(* Actions.                                                                *)
(***************************************************************************)
\* the requests of the add-to-cart clicks in flight, by product id
NoFetches == [id \in ProductIds |-> 0]
\* the tabs of the browser on the origin: the document of the model, and a
\* second one of which only the storage accesses are seen
Tabs == { "this", "other" }
\* a cart operation of a tab between its getCart() and its saveCart(): op is
\* "none" when the tab is in no operation
NoRead == [op |-> "none", id |-> 0, change |-> 0,
           user |-> Thrown("none"), cart |-> Thrown("none")]
NoReads == [t \in Tabs |-> NoRead]
Idle == reads["this"].op = "none"

Starts(m) ==
    /\ localStorage = m.ls
    /\ sessionStorage = m.ss
    /\ dom = m.dom
    /\ badge = m.badge
    /\ view = m.view
    /\ href = m.href
    /\ msg = m.msg
    /\ raised = m.raised
    /\ placing = m.placing
    /\ timers = m.timers
    /\ fetches = NoFetches
    /\ reads = NoReads
    /\ clicked = << >>

\* empty storage, and a page loaded
Init == \E d \in DomKinds : Starts(pageLoad(NoStorage, NoStorage, d))

\* the quantity updateQuantity(id, change) would store, 0 when it stores none
qtyAfter(cart, i, change) == IF i = 0 THEN 0 ELSE QtyOf(cart.val[i]) + change
qtyIn(cart, id, change) ==
    qtyAfter(cart, IF cart.err = "none" THEN FindIndex(cart.val, id, 1) ELSE 0,
             change)
NextQty(id, change) == qtyIn(AsArray(getCart(localStorage)), id, change)

\* assigning window.location.href replaces the document: once a handler has
\* navigated (href # ""), the next event is the load of a page
Alive == href = ""

\* a new document: the requests and the waits of the old one end with it
NewDocument ==
    /\ fetches' = NoFetches
    /\ clicked' = << >>
    /\ UNCHANGED reads

PageLoad(d) ==
    /\ d \in DomKinds
    /\ CommitM(pageLoad(localStorage, sessionStorage, d))
    /\ NewDocument

Register(name, email, password, address) ==
    /\ Alive /\ dom.page = "register"
    /\ Commit(registerSubmit(Begin(M), name, email, password, address))

LoginSubmit(email, password, rememberMe) ==
    /\ Alive /\ dom.page = "login"
    /\ Commit(loginFormSubmit(Begin(M), email, password, rememberMe))

Logout == Alive /\ Commit(logout(Begin(M)))

AddToCart(product) == Alive /\ Commit(addToCart(Begin(M), product))

UpdateQuantity(id, change) ==
    /\ Alive
    /\ NextQty(id, change) <= MaxQty
    /\ Commit(updateQuantity(Begin(M), id, change))

RemoveItem(id) == Alive /\ Commit(removeItem(Begin(M), id))

CheckoutClick(id, button) ==
    /\ Alive
    /\ view.kind = "items"
    /\ \E i \in 1 .. Len(view.items) : HasId(view.items[i], id)
    /\ button = "qty-increase" => NextQty(id, 1) <= MaxQty
    /\ Commit(checkoutClick(Begin(M), id, button))

\* clicked keeps, for each handler in its wait, what getCartKey() returned
\* when its button was clicked (the handler itself does not read it then)
PlaceOrderClick ==
    /\ Alive
    /\ view.kind = "items"
    /\ placing < MaxPlacing
    /\ CommitM([Begin(M) EXCEPT !.placing = placing + 1])
    /\ clicked' = Append(clicked, getCartKey(localStorage))
    /\ UNCHANGED << fetches, reads >>

PlaceOrderResume ==
    /\ Alive
    /\ placing > 0
    /\ CommitM(placeOrderResume([Begin(M) EXCEPT !.placing = placing - 1]))
    /\ clicked' = Tail(clicked)
    /\ UNCHANGED << fetches, reads >>

TimerFire(url) ==
    /\ Alive
    /\ url \in timers
    /\ Commit(navigateTo([Begin(M) EXCEPT !.timers = timers \ { url }], url))

ProfileLoad(count) ==
    /\ count \in BOOLEAN
    /\ NewDocument
    /\ CommitM(profileLoad(localStorage, sessionStorage, count))

ProfileSubmit(name, address) ==
    /\ Alive /\ dom.page = "profile" /\ "user" \in DOMAIN dom
    /\ Commit(profileSubmit(Begin(M), name, address))

DeleteClick ==
    /\ Alive /\ dom.page = "profile" /\ "user" \in DOMAIN dom
    /\ Commit(deleteClick(Begin(M)))

ResetLoad(count, email) ==
    /\ email \in Emails
    /\ NewDocument
    /\ CommitM(resetLoad(localStorage, sessionStorage, count, email))

ResetSubmit(pass1, pass2) ==
    /\ Alive /\ dom.page = "reset-password"
    /\ Commit(resetSubmit(Begin(M), pass1, pass2))

(***************************************************************************)
(* The cart operations in two steps, for two tabs that share localStorage: *)
(* the step up to the return of getCart(), and the rest of the function.   *)
(***************************************************************************)
ProductOf(id) == CHOOSE p \in Catalog : p.id = id

\* a variant of the second step that patches the stored cart: the new line
\* item is appended to the cart as stored at the time of the write
finishPatch(m, r) ==
    IF r.op = "add"
    THEN IF r.cart.err = "none"
            /\ ~\E i \in 1 .. Len(r.cart.val) : HasId(r.cart.val[i], r.id)
         THEN addItemTwice(m, r.user, AsArray(getCart(m.ls)), ProductOf(r.id))
         ELSE addItem(m, r.user, r.cart, ProductOf(r.id))
    ELSE IF r.op = "update" THEN changeIn(m, r.cart, r.id, r.change)
    ELSE removeFrom(m, r.cart, r.id)

\* the rest of the operation, on the user and the cart its first step read
finish(m, r) ==
    IF r.op = "add" THEN addItem(m, r.user, r.cart, ProductOf(r.id))
    ELSE IF r.op = "update" THEN changeIn(m, r.cart, r.id, r.change)
    ELSE removeFrom(m, r.cart, r.id)

\* getCurrentUser() and getCart() of an operation of tab t
ReadStep(t, op, id, change) ==
    /\ Alive
    /\ reads[t].op = "none"
    /\ op = "update" => qtyIn(AsArray(getCart(localStorage)), id, change) <= MaxQty
    /\ reads' = [reads EXCEPT ![t] =
                    [op |-> op, id |-> id, change |-> change,
                     user |-> getCurrentUser(localStorage),
                     cart |-> AsArray(getCart(localStorage))]]
    /\ UNCHANGED << localStorage, sessionStorage, dom, badge, view, href, msg,
                    raised, placing, timers, fetches, clicked >>

\* the rest of the operation of the document of the model
WriteThis ==
    /\ Alive
    /\ reads["this"].op # "none"
    /\ CommitM(finish(Begin(M), reads["this"]))
    /\ reads' = [reads EXCEPT !["this"] = NoRead]
    /\ UNCHANGED << fetches, clicked >>

\* the rest of the operation of the other tab: of its effects, the one on
\* the storage the tabs share
WriteOther ==
    /\ reads["other"].op # "none"
    /\ localStorage' = finish(Begin(M), reads["other"]).ls
    /\ reads' = [reads EXCEPT !["other"] = NoRead]
    /\ UNCHANGED << sessionStorage, dom, badge, view, href, msg, raised,
                    placing, timers, fetches, clicked >>

(***************************************************************************)
(* The store page (script.js loadStoreProducts): the add-to-cart buttons,  *)
(* enabled when a user is read once the products are fetched, and their    *)
(* click handler, which awaits the product before it calls addToCart.      *)
(***************************************************************************)
\* the load of store.html: the product list is being fetched
StoreLoad(count) ==
    /\ count \in BOOLEAN
    /\ CommitM(pageLoad(localStorage, sessionStorage,
                        [page |-> "store", count |-> count, checkout |-> FALSE]))
    /\ NewDocument

\* the products arrive: btn.disabled = !user (an exception of getCurrentUser
\* is caught, and the list shows the failure with no button)
ProductsLoaded ==
    /\ Alive
    /\ dom.page = "store"
    /\ "enabled" \notin DOMAIN dom
    /\ Commit([Begin(M) EXCEPT !.dom =
                  [page |-> "store", count |-> dom.count, checkout |-> FALSE,
                   enabled |-> Truthy(getCurrentUser(localStorage))]])

\* the click on an enabled button: axios.get of the product starts
AddClick(id) ==
    /\ Alive
    /\ dom.page = "store"
    /\ "enabled" \in DOMAIN dom
    /\ dom.enabled
    /\ fetches[id] < MaxFetches
    /\ fetches' = [fetches EXCEPT ![id] = @ + 1]
    /\ UNCHANGED << localStorage, sessionStorage, dom, badge, view, href, msg,
                    raised, placing, timers, reads, clicked >>

\* the product arrives: addToCart(data)
FetchDone(id) ==
    /\ Alive
    /\ fetches[id] > 0
    /\ CommitM(addToCart(Begin(M), ProductOf(id)))
    /\ fetches' = [fetches EXCEPT ![id] = @ - 1]
    /\ UNCHANGED << reads, clicked >>

\* the request fails: the handler rejects and addToCart is not called
FetchFailed(id) ==
    /\ Alive
    /\ fetches[id] > 0
    /\ fetches' = [fetches EXCEPT ![id] = @ - 1]
    /\ UNCHANGED << localStorage, sessionStorage, dom, badge, view, href, msg,
                    raised, placing, timers, reads, clicked >>

\* another tab logs out (auth.js logout there): the entry is removed here too
OtherTabLogout ==
    /\ "activeUser" \in DOMAIN localStorage
    /\ localStorage' = removeKey(localStorage, "activeUser")
    /\ UNCHANGED << sessionStorage, dom, badge, view, href, msg, raised,
                    placing, timers, fetches, reads, clicked >>

\* another tab logs a stored user in (auth.js setupLoginPage there)
OtherTabLogin(i) ==
    /\ readUsers(localStorage).err = "none"
    /\ i \in 1 .. Len(readUsers(localStorage).val)
    /\ localStorage' = setItem(localStorage, "activeUser",
                               StringifyObject(readUsers(localStorage).val[i]))
    /\ UNCHANGED << sessionStorage, dom, badge, view, href, msg, raised,
                    placing, timers, fetches, reads, clicked >>

Buttons == { "qty-increase", "qty-decrease", "remove-btn" }

\* line items of the catalogue at the quantities of the model, and the
\* well-formed carts made of them: no id twice
Items == { [id |-> p.id, price |-> p.price, qty |-> q] :
              p \in Catalog, q \in 1 .. MaxQty }
WellFormedCarts ==
    { cart \in UNION { [1 .. n -> Items] : n \in 0 .. Cardinality(Catalog) } :
         \A i, j \in 1 .. Len(cart) : cart[i].id = cart[j].id => i = j }

\* a direct call of the exported saveCart, as the test suite makes
SaveCartCall(cart) == Alive /\ Commit(saveCart(Begin(M), cart))

\* texts that are no JSON array: a text cut short, and the empty string
BrokenTexts == { << "[", "{" >>, << >> }

\* the entry of a cart key written from outside the program (another script
\* of the origin, the developer tools)
StorageWrittenOutside(k, text) ==
    /\ Alive
    /\ localStorage' = setItem(localStorage, k, text)
    /\ UNCHANGED << sessionStorage, dom, badge, view, href, msg, raised,
                    placing, timers, fetches, reads, clicked >>

\* page loads and the authentication forms, the inputs drawn from emails
AuthNext(emails) ==
    \/ \E d \in DomKinds : PageLoad(d)
    \/ \E n \in Names, e \in emails \cup BadEmails,
          p \in PasswordInputs, a \in Addresses : Register(n, e, p, a)
    \/ \E e \in emails \cup BadEmails, p \in PasswordInputs, r \in BOOLEAN :
          LoginSubmit(e, p, r)
    \/ Logout
    \/ \E url \in timers : TimerFire(url)

\* the cart operations and the checkout page
CartNext ==
    \/ \E product \in Catalog : AddToCart(product)
    \/ \E id \in ProductIds, change \in Deltas : UpdateQuantity(id, change)
    \/ \E id \in ProductIds : RemoveItem(id)
    \/ \E id \in ProductIds, b \in Buttons : CheckoutClick(id, b)
    \/ PlaceOrderClick
    \/ PlaceOrderResume

Next == AuthNext(OneEmail) \/ CartNext

\* the operations of the user interface, from empty storage
Spec == Init /\ [][Next]_vars

\* the documents of the direct calls: the navbar badge on every page
ApiDoms == { d \in DomKinds : d.count /\ d.page # "login" }

NextApi ==
    \/ \E d \in ApiDoms : PageLoad(d)
    \/ \E n \in Names, e \in OneEmail, p \in Passwords, a \in Addresses :
          Register(n, e, p, a)
    \/ Logout
    \/ \E cart \in WellFormedCarts : SaveCartCall(cart)

\* the exported saveCart called directly, by a guest or a principal
SpecApi == Init /\ [][NextApi]_vars

NextExt ==
    \/ AuthNext(OneEmail)
    \/ \E product \in Catalog : AddToCart(product)
    \/ \E id \in ProductIds : RemoveItem(id)
    \/ \E k \in { "fs_cart_guest", "fs_cart_a@x.io" }, text \in BrokenTexts :
          StorageWrittenOutside(k, text)

\* storage also written from outside the program
SpecExt == Init /\ [][NextExt]_vars

\* direct calls of the exported updateCartUI and renderCheckout
UpdateCartUICall == Alive /\ Commit(updateCartUI(Begin(M)))
RenderCheckoutCall == Alive /\ Commit(renderCheckout(Begin(M)))

\* carts handed to saveCart directly: none, one and two line items, the last
\* at the largest quantity
SomeCarts ==
    { cart \in WellFormedCarts :
         \A i \in 1 .. Len(cart) :
            /\ cart[i].id = i
            /\ cart[i].qty = (IF i = Len(cart) THEN MaxQty ELSE 1) }
\* documents with and without the badge and the checkout container
ViewDoms == { d \in DomKinds : d.page # "login" }

NextView ==
    \/ \E d \in ViewDoms : PageLoad(d)
    \/ \E n \in Names, e \in OneEmail, p \in Passwords, a \in Addresses :
          Register(n, e, p, a)
    \/ Logout
    \/ \E product \in Catalog : AddToCart(product)
    \/ \E id \in ProductIds, change \in Deltas : UpdateQuantity(id, change)
    \/ \E id \in ProductIds : RemoveItem(id)
    \/ \E cart \in SomeCarts : SaveCartCall(cart)
    \/ UpdateCartUICall
    \/ RenderCheckoutCall

\* the cart functions and the two view refreshes, on documents of every kind
SpecView == Init /\ [][NextView]_vars

\* the records of an active user stored without the forms, as the test suite
\* stores them: a name and an email
PrincipalRecords ==
    { [name |-> n, email |-> e] : n \in Names, e \in OneEmail \cup OddEmails }
\* the texts of the activeUser entry: those records, a text cut short, and
\* the empty string
ActiveUserTexts ==
    { StringifyObject(u) : u \in PrincipalRecords } \cup { << "{" >>, << >> }

\* localStorage.setItem('activeUser', text) from outside the handlers
ActiveUserWritten(text) ==
    /\ Alive
    /\ localStorage' = setItem(localStorage, "activeUser", text)
    /\ UNCHANGED << sessionStorage, dom, badge, view, href, msg, raised,
                    placing, timers, fetches, reads, clicked >>

NextSet ==
    \/ \E d \in DomKinds : PageLoad(d)
    \/ \E text \in ActiveUserTexts : ActiveUserWritten(text)
    \/ Logout
    \/ \E product \in Catalog : AddToCart(product)
    \/ \E id \in ProductIds : RemoveItem(id)
    \/ RenderCheckoutCall

\* the active user set directly in storage
SpecSet == Init /\ [][NextSet]_vars

\* the documents of two users taking turns: the forms, and the checkout page
TwoDoms == { d \in DomKinds : d.count /\ (d.page = "other" => d.checkout) }
\* the product the two users buy
OneProduct == { p \in Catalog : p.id = 1 }

NextTwo ==
    \/ \E d \in TwoDoms : PageLoad(d)
    \/ \E n \in Names, e \in Emails, p \in Passwords, a \in Addresses :
          Register(n, e, p, a)
    \/ \E e \in Emails, p \in Passwords, r \in BOOLEAN : LoginSubmit(e, p, r)
    \/ Logout
    \/ \E url \in timers : TimerFire(url)
    \/ \E product \in OneProduct : AddToCart(product)
    \/ \E product \in OneProduct, change \in Deltas :
          UpdateQuantity(product.id, change)
    \/ \E product \in OneProduct : RemoveItem(product.id)
    \/ PlaceOrderClick
    \/ PlaceOrderResume

\* two registered users on one browser
SpecTwo == Init /\ [][NextTwo]_vars

\* the documents of the two tabs: the register form, and a checkout page
TabDoms == { d \in DomKinds : d.count /\ (d.page = "register" \/ d.checkout) }
TabOps == { "add", "update", "remove" }
TabDeltas == { -1, 1 }

NextTabs ==
    \/ \E d \in TabDoms : Idle /\ PageLoad(d)
    \/ \E n \in Names, e \in OneEmail, p \in Passwords, a \in Addresses :
          Idle /\ Register(n, e, p, a)
    \/ \E url \in timers : Idle /\ TimerFire(url)
    \/ \E t \in Tabs, op \in TabOps, product \in OneProduct, change \in TabDeltas :
          ReadStep(t, op, product.id, IF op = "update" THEN change ELSE 0)
    \/ WriteThis
    \/ WriteOther

\* two tabs of one user, their cart operations interleaved step by step
SpecTabs == Init /\ [][NextTabs]_vars

NextAsync ==
    \/ \E d \in TabDoms : PageLoad(d)
    \/ StoreLoad(TRUE)
    \/ ProductsLoaded
    \/ \E n \in Names, e \in Emails, p \in Passwords, a \in Addresses :
          Register(n, e, p, a)
    \/ \E url \in timers : TimerFire(url)
    \/ Logout
    \/ \E product \in OneProduct : AddClick(product.id)
    \/ \E product \in OneProduct : FetchDone(product.id)
    \/ \E product \in OneProduct : FetchFailed(product.id)
    \/ PlaceOrderClick
    \/ PlaceOrderResume
    \/ OtherTabLogout
    \/ \E i \in 1 .. Cardinality(Emails) : OtherTabLogin(i)

\* the handlers that wait (the fetch of a product, the 1.2 s of an order)
\* while the active user changes from another tab
SpecAsync == Init /\ [][NextAsync]_vars

NextOwner ==
    \/ Next
    \/ ProfileLoad(TRUE)
    \/ DeleteClick

\* the operations of the user interface and the deletion of the account
SpecOwner == Init /\ [][NextOwner]_vars

\* the documents of the account pages: the login form and the register form
AccountDoms == { d \in DomKinds : d.count /\ d.page \in { "login", "register" } }

NextAccount ==
    \/ \E d \in AccountDoms : PageLoad(d)
    \/ ProfileLoad(TRUE)
    \/ \E e \in Emails : ResetLoad(TRUE, e)
    \/ \E n \in Names, e \in Emails, p \in Passwords, a \in Addresses :
          Register(n, e, p, a)
    \/ \E e \in Emails, p \in Passwords \cup NewPasswords, r \in BOOLEAN :
          LoginSubmit(e, p, r)
    \/ Logout
    \/ \E n \in NewNames, a \in Addresses : ProfileSubmit(n, a)
    \/ DeleteClick
    \/ \E p1 \in NewPasswords, p2 \in Passwords \cup NewPasswords :
          ResetSubmit(p1, p2)
    \/ \E url \in timers : TimerFire(url)

\* the account pages of two users: registration, login, logout, profile
\* update, account deletion and password reset
SpecAccount == Init /\ [][NextAccount]_vars

(***************************************************************************)
(* Vocabulary of the properties.                                           *)
(***************************************************************************)
CartKeys == { "fs_cart_guest" } \cup { "fs_cart_" \o e : e \in Emails }
OtherKeys == { "users", "activeUser", "rememberedEmail" }
\* the cart entries of a store, the other entries left out
CartEntries(ls) == [k \in DOMAIN ls \cap CartKeys |-> ls[k]]
NoPrincipal == "activeUser" \notin DOMAIN localStorage
HasPrincipal == getCurrentUser(localStorage).kind = "object"
\* the namespace key now, and what getCart() returns now and after the step
Key == getCartKey(localStorage).key
Cart == getCart(localStorage)
CartAfter == getCart(localStorage')
Readable == Cart.err = "none" /\ Cart.kind = "array"
Holds(arr, id) == \E i \in 1 .. Len(arr) : arr[i].id = id
\* what a getCart() returned is an array with a line item of the id
Has(cart, id) == cart.err = "none" /\ cart.kind = "array" /\ Holds(cart.val, id)
\* what a getCart() returned is an array without a line item of the id
Lacks(cart, id) == cart.err = "none" /\ cart.kind = "array" /\ ~Holds(cart.val, id)
Without(arr, id) == SelectSeq(arr, LAMBDA item : item.id # id)
Place(arr, id) == CHOOSE i \in 1 .. Len(arr) : arr[i].id = id
UniqueIds(arr) ==
    \A i, j \in 1 .. Len(arr) : arr[i].id = arr[j].id => i = j
PositiveQtys(arr) ==
    \A i \in 1 .. Len(arr) : arr[i].qty \in Nat /\ arr[i].qty >= 1
\* the entries of every key but k are the same before and after the step
SameExcept(k) ==
    /\ DOMAIN localStorage' \ { k } = DOMAIN localStorage \ { k }
    /\ \A x \in DOMAIN localStorage \ { k } : localStorage'[x] = localStorage[x]
\* after the step the entry of key k holds the array arr, the others unchanged
StoredAt(k, arr) ==
    /\ k \in DOMAIN localStorage'
    /\ JSONparse(localStorage'[k]) = [kind |-> "array", val |-> arr]
    /\ SameExcept(k)
\* arr with the quantity of the line item of the id changed by delta, the item
\* left out when the quantity is then 0 or less
Changed(arr, id, delta) ==
    IF arr[Place(arr, id)].qty + delta > 0
    THEN [arr EXCEPT ![Place(arr, id)].qty = @ + delta]
    ELSE Without(arr, id)

(***************************************************************************)
(* C1.  From empty storage, under any sequence of login, logout,           *)
(* addToCart, updateQuantity, removeItem and place-order, every stored     *)
(* cart is an array of line items with no id twice and every qty >= 1.     *)
(***************************************************************************)
C1_StoredCartsWellFormed ==
    /\ DOMAIN localStorage \subseteq CartKeys \cup OtherKeys
    /\ \A k \in DOMAIN localStorage \cap CartKeys :
          /\ JSONparse(localStorage[k]).kind = "array"
          /\ UniqueIds(JSONparse(localStorage[k]).val)
          /\ PositiveQtys(JSONparse(localStorage[k]).val)

\* a stored cart of two line items, one of them raised above quantity 1
C1_Witness ==
    \E k \in DOMAIN localStorage \cap CartKeys :
       /\ JSONparse(localStorage[k]).kind = "array"
       /\ Len(JSONparse(localStorage[k]).val) = 2
       /\ \E i \in 1 .. 2 : JSONparse(localStorage[k]).val[i].qty >= 2

(***************************************************************************)
(* C2.  addToCart with no active principal shows 'Please login first!'     *)
(* (the Unauthenticated signal), throws nothing, and leaves every stored   *)
(* cart entry, the guest entry included, as it was.                        *)
(***************************************************************************)
C2_Unauthenticated ==
    [][\A p \in Catalog :
          (NoPrincipal /\ AddToCart(p)) =>
             /\ msg' = [text |-> "Please login first!", type |-> "danger"]
             /\ raised' = "none"
             /\ CartEntries(localStorage') = CartEntries(localStorage)
             /\ localStorage' = localStorage]_vars

\* addToCart has answered a caller without principal, a cart being stored
C2_Witness ==
    /\ msg.text = "Please login first!"
    /\ NoPrincipal
    /\ raised = "none"
    /\ \E k \in DOMAIN localStorage \cap CartKeys : Len(localStorage[k]) > 2

(***************************************************************************)
(* C3.  For an active principal, addToCart of a product whose id is        *)
(* already in the cart (a second addToCart(P)) shows 'Product already in   *)
(* cart!' (DuplicateItem), and the cart keeps exactly one line item for P, *)
(* its quantity unchanged.                                                 *)
(***************************************************************************)
C3_DuplicateItem ==
    [][\A p \in Catalog :
          (HasPrincipal /\ Readable /\ Holds(Cart.val, p.id) /\ AddToCart(p)) =>
             /\ msg' = [text |-> "Product already in cart!", type |-> "danger"]
             /\ raised' = "none"
             /\ localStorage' = localStorage
             /\ Cardinality({ i \in 1 .. Len(CartAfter.val) :
                                 CartAfter.val[i].id = p.id }) = 1
             /\ CartAfter.val[Place(CartAfter.val, p.id)].qty
                   = Cart.val[Place(Cart.val, p.id)].qty]_vars

\* the second addToCart has been refused, the item standing at a quantity
\* other than the one addToCart gives
C3_Witness ==
    /\ msg.text = "Product already in cart!"
    /\ HasPrincipal
    /\ Readable
    /\ \E i \in 1 .. Len(Cart.val) : Cart.val[i].qty = 2

(***************************************************************************)
(* C4.  For an active principal and a product whose id is not in the cart, *)
(* addToCart appends one line item with qty = 1 at the end, leaves the     *)
(* items already there and their order unchanged, and persists the result  *)
(* through saveCart: the entry of the namespace holds the new cart, no     *)
(* other entry changes, and the badge and checkout view show it.           *)
(***************************************************************************)
C4_AddAppends ==
    [][\A p \in Catalog :
          (HasPrincipal /\ Readable /\ ~Holds(Cart.val, p.id) /\ AddToCart(p)) =>
             /\ CartAfter.err = "none" /\ CartAfter.kind = "array"
             /\ Len(CartAfter.val) = Len(Cart.val) + 1
             /\ SubSeq(CartAfter.val, 1, Len(Cart.val)) = Cart.val
             /\ CartAfter.val[Len(CartAfter.val)]
                   = [id |-> p.id, price |-> p.price, qty |-> 1]
             /\ Key \in DOMAIN localStorage'
             /\ JSONparse(localStorage'[Key]).val = CartAfter.val
             /\ SameExcept(Key)
             /\ dom.count =>
                   badge' = [text |-> ToString(cartCount(localStorage).count + 1),
                             hidden |-> FALSE]
             /\ dom.checkout => view' = [kind |-> "items", items |-> CartAfter.val]
             /\ msg' = [text |-> "Product added to cart!", type |-> "success"]
             /\ raised' = "none"]_vars

\* a product has been added behind an item that was already there
C4_Witness ==
    /\ msg.text = "Product added to cart!"
    /\ Readable
    /\ Len(Cart.val) = 2
    /\ Cart.val[2].qty = 1

(***************************************************************************)
(* C5.  For a line item of the cart with quantity q, updateQuantity(id,    *)
(* delta) stores a cart in which the item has qty q + delta when           *)
(* q + delta > 0 and is absent when q + delta <= 0; the other line items   *)
(* and their order are unchanged.                                          *)
(***************************************************************************)
C5_UpdateQuantity ==
    [][\A id \in ProductIds :
          Has(Cart, id) =>
             \A delta \in Deltas :
                UpdateQuantity(id, delta) =>
                   /\ raised' = "none"
                   /\ StoredAt(Key, Changed(Cart.val, id, delta))
                   /\ CartAfter = [err |-> "none", kind |-> "array",
                                   val |-> Changed(Cart.val, id, delta)]
                   /\ Cart.val[Place(Cart.val, id)].qty + delta <= 0 =>
                         ~Holds(CartAfter.val, id)]_vars

\* updateQuantity has raised the second item of a cart to the largest quantity
C5_Witness ==
    /\ Readable
    /\ Len(Cart.val) = 2
    /\ Cart.val[2].qty = MaxQty
    /\ Cart.val[1].qty = 1

(***************************************************************************)
(* C6.  updateQuantity(id, delta) for an id that is not in the current     *)
(* cart changes the stored entry of no namespace and throws nothing.       *)
(***************************************************************************)
C6_UpdateAbsentNoOp ==
    [][\A id \in ProductIds :
          Lacks(Cart, id) =>
             \A delta \in Deltas :
                UpdateQuantity(id, delta) =>
                   /\ localStorage' = localStorage
                   /\ raised' = "none"]_vars

\* a principal whose namespace has no entry at all, with nothing thrown: the
\* case in which a write of the unchanged cart would show
C6_Witness ==
    /\ HasPrincipal
    /\ Key \notin DOMAIN localStorage
    /\ raised = "none"
    /\ msg = NoMsg
    /\ "fs_cart_guest" \in DOMAIN localStorage

(***************************************************************************)
(* C7.  After removeItem(id), getCart() is the previous cart with the line *)
(* item of that id filtered out, the others in their order; when the cart  *)
(* does not contain id the cart read back is the same and no error is      *)
(* signalled.  (An absent entry is then written as the empty array.)       *)
(***************************************************************************)
C7_RemoveItem ==
    [][Readable =>
          \A id \in ProductIds :
             RemoveItem(id) =>
                /\ CartAfter.err = "none" /\ CartAfter.kind = "array"
                /\ CartAfter.val = Without(Cart.val, id)
                /\ ~Holds(Cart.val, id) => CartAfter.val = Cart.val
                /\ Key \in DOMAIN localStorage'
                /\ JSONparse(localStorage'[Key]).val = CartAfter.val
                /\ SameExcept(Key)
                /\ raised' = "none"
                /\ msg' = NoMsg]_vars

\* removeItem has run on a guest cart, which never holds the id
C7_Witness ==
    /\ NoPrincipal
    /\ "fs_cart_guest" \in DOMAIN localStorage
    /\ localStorage["fs_cart_guest"] = << "[", "]" >>
    /\ raised = "none"

(***************************************************************************)
(* C10.  cartCount() is the sum of qty over the line items of the current  *)
(* namespace's cart, and 0 when the cart is empty or its entry absent.     *)
(***************************************************************************)
\* the sum of the quantities at the positions in a set
RECURSIVE SumAt(_, _)
SumAt(arr, positions) ==
    IF positions = {} THEN 0
    ELSE LET i == CHOOSE x \in positions : TRUE
         IN arr[i].qty + SumAt(arr, positions \ { i })

C10_CartCount ==
    /\ cartCount(localStorage).err = "none"
    /\ Readable
    /\ cartCount(localStorage).count = SumAt(Cart.val, 1 .. Len(Cart.val))
    /\ Cart.val = << >> => cartCount(localStorage).count = 0
    /\ Key \notin DOMAIN localStorage => cartCount(localStorage).count = 0

\* two line items of different quantities are counted
C10_Witness ==
    /\ Readable
    /\ Len(Cart.val) = 2
    /\ Cart.val[1].qty = 2 /\ Cart.val[2].qty = 1
    /\ cartCount(localStorage).count = 3

(***************************************************************************)
(* C8.  getCart() on a namespace with no stored entry returns the empty    *)
(* sequence, and getCart() after saveCart(X), the active principal the     *)
(* same, returns a sequence equal to X, for every well-formed X, the empty *)
(* one included.                                                           *)
(***************************************************************************)
C8_RoundTrip ==
    [][/\ Key \notin DOMAIN localStorage =>
             Cart = [err |-> "none", kind |-> "array", val |-> << >>]
       /\ \A X \in WellFormedCarts :
             SaveCartCall(X) =>
                /\ getCartKey(localStorage') = getCartKey(localStorage)
                /\ CartAfter = [err |-> "none", kind |-> "array", val |-> X]
                /\ raised' = "none"]_vars

\* a principal has saved a cart of two line items, the guest another
C8_Witness ==
    /\ HasPrincipal
    /\ Readable
    /\ Len(Cart.val) = 2
    /\ Cart.val[1].id = 2
    /\ "fs_cart_guest" \in DOMAIN localStorage
    /\ Len(localStorage["fs_cart_guest"]) > 2

(***************************************************************************)
(* C9.  getCart() fails open: when the value stored at the current         *)
(* namespace key is present but cannot be parsed, getCart() returns the    *)
(* empty sequence and throws nothing, and so does cartCount().             *)
(***************************************************************************)
C9_GetCartFailsOpen ==
    (Key \in DOMAIN localStorage /\ JSONparse(localStorage[Key]).kind = "error") =>
       /\ Cart = [err |-> "none", kind |-> "array", val |-> << >>]
       /\ cartCount(localStorage) = [err |-> "none", count |-> 0]


(***************************************************************************)
(* C11.  Carts of different principals never mix: for principals A and B   *)
(* with different emails, a step taken while A is and stays the active     *)
(* principal leaves the entry stored for B as it was, and whenever B is    *)
(* the active principal (after a switch from A in particular) getCart()    *)
(* returns the cart stored in B's entry, the switch leaving that entry     *)
(* untouched.                                                              *)
(***************************************************************************)
\* the email of the active principal, "" when there is none
ActiveEmail(ls) ==
    IF getCurrentUser(ls).kind = "object" /\ "email" \in DOMAIN getCurrentUser(ls).val
    THEN getCurrentUser(ls).val.email ELSE ""
\* the entry of a key: absent, or its text
EntryAt(ls, k) == IF k \in DOMAIN ls THEN << ls[k] >> ELSE << >>
\* the cart in the entry the code keeps for the principal of an email
StoredFor(ls, e) == Returned(JSONparse(getItemOr(ls, "fs_cart_" \o e, << "[", "]" >>)))

C11_CartsNeverMix ==
    [][\A a, b \in Emails :
          a # b =>
             /\ (ActiveEmail(localStorage) = a /\ ActiveEmail(localStorage') = a) =>
                   EntryAt(localStorage', "fs_cart_" \o b)
                      = EntryAt(localStorage, "fs_cart_" \o b)
             /\ (ActiveEmail(localStorage) = a /\ ActiveEmail(localStorage') = b) =>
                   /\ EntryAt(localStorage', "fs_cart_" \o b)
                         = EntryAt(localStorage, "fs_cart_" \o b)
                   /\ CartAfter = StoredFor(localStorage, b)
             /\ ActiveEmail(localStorage) = b => Cart = StoredFor(localStorage, b)]_vars

\* B is active after A, each with a cart of their own: A's at quantity 2,
\* B's at quantity 1
C11_Witness ==
    /\ ActiveEmail(localStorage) = "b@x.io"
    /\ StoredFor(localStorage, "a@x.io").kind = "array"
    /\ Len(StoredFor(localStorage, "a@x.io").val) = 1
    /\ StoredFor(localStorage, "a@x.io").val[1].qty = 2
    /\ Readable
    /\ Len(Cart.val) = 1
    /\ Cart.val[1].qty = 1


(***************************************************************************)
(* C12.  The key getCartKey() returns is "fs_cart_guest" when no principal *)
(* is active and "fs_cart_" followed by the principal's email when one is  *)
(* active.                                                                 *)
(***************************************************************************)
C12_NamespaceKey ==
    /\ NoPrincipal =>
          getCartKey(localStorage) = [err |-> "none", key |-> "fs_cart_guest"]
    /\ \A e \in Emails :
          ActiveEmail(localStorage) = e =>
             getCartKey(localStorage) = [err |-> "none", key |-> "fs_cart_" \o e]

\* the second user is the active principal, the first one registered too
C12_Witness ==
    /\ ActiveEmail(localStorage) = "b@x.io"
    /\ readUsers(localStorage).err = "none"
    /\ Len(readUsers(localStorage).val) = 2

\* C12 as first stated: the keys are "cart_guest" and "cart_" followed by the
\* email
C12_KeyWithoutPrefix ==
    /\ NoPrincipal =>
          getCartKey(localStorage) = [err |-> "none", key |-> "cart_guest"]
    /\ \A e \in Emails :
          ActiveEmail(localStorage) = e =>
             getCartKey(localStorage) = [err |-> "none", key |-> "cart_" \o e]


(***************************************************************************)
(* C13.  The namespace key is a function of the stored active principal    *)
(* alone (the same activeUser entry gives the same key), and the guest key *)
(* is never the key of an authenticated principal, whatever non-empty      *)
(* email the principal has.                                                *)
(***************************************************************************)
\* a store with the activeUser entry of ls and nothing else
OnlyActiveUser(ls) == [k \in DOMAIN ls \cap { "activeUser" } |-> ls[k]]

C14_ResolverNeverFails ==
    /\ getCartKey(localStorage).err = "none"
    /\ ("activeUser" \in DOMAIN localStorage
          /\ JSONparse(localStorage["activeUser"]).kind = "error") =>
          getCartKey(localStorage).key = "fs_cart_guest"
    /\ NoPrincipal => getCartKey(localStorage).key = "fs_cart_guest"


(***************************************************************************)
(* C15.  View synchronization: when the cart-count element is present, at  *)
(* the return of a successful addToCart, of an updateQuantity that finds   *)
(* its item, of removeItem and of saveCart, the element shows cartCount()  *)
(* of the cart just stored and is hidden exactly when that count is 0: the *)
(* refresh comes after the write, in the same call.                        *)
(***************************************************************************)
\* the badge after the step shows the count of the cart stored after the step
BadgeSynced ==
    /\ raised' = "none"
    /\ cartCount(localStorage').err = "none"
    /\ badge'.text = ToString(cartCount(localStorage').count)
    /\ badge'.hidden = (cartCount(localStorage').count = 0)

C15_ViewSynchronized ==
    [][(Alive /\ dom.count) =>
          /\ \A p \in Catalog :
                (HasPrincipal /\ Lacks(Cart, p.id) /\ AddToCart(p)) =>
                   /\ BadgeSynced
                   /\ badge'.text = ToString(cartCount(localStorage).count + 1)
          /\ \A id \in ProductIds :
                Has(Cart, id) =>
                   \A delta \in Deltas : UpdateQuantity(id, delta) => BadgeSynced
          /\ Readable => \A id \in ProductIds : RemoveItem(id) => BadgeSynced
          /\ \A X \in SomeCarts :
                SaveCartCall(X) =>
                   /\ BadgeSynced
                   /\ badge'.text = ToString(SumAt(X, 1 .. Len(X)))]_vars

\* the badge shows 3 for a stored cart of two line items
C15_Witness ==
    /\ dom.count
    /\ Readable
    /\ Len(Cart.val) = 2
    /\ badge = [text |-> "3", hidden |-> FALSE]
    /\ msg = NoMsg

(***************************************************************************)
(* C16.  The badge update and the checkout re-render are no-ops, not       *)
(* errors, when their surface is absent: with no cart-count element        *)
(* updateCartUI() changes nothing and throws nothing, with no checkout     *)
(* container renderCheckout() changes nothing, does not navigate and       *)
(* throws nothing; saveCart still stores the cart in both cases.           *)
(***************************************************************************)
C16_AbsentSurfaces ==
    [][/\ (~dom.count /\ UpdateCartUICall) =>
             /\ raised' = "none"
             /\ UNCHANGED << localStorage, sessionStorage, badge, view, href >>
       /\ (~dom.checkout /\ RenderCheckoutCall) =>
             /\ raised' = "none"
             /\ UNCHANGED << localStorage, sessionStorage, badge, view, href >>
       /\ (~dom.count \/ ~dom.checkout) =>
             \A X \in SomeCarts :
                SaveCartCall(X) =>
                   /\ StoredAt(Key, X)
                   /\ ~dom.count => (badge' = badge /\ raised' = "none")
                   /\ ~dom.checkout => (view' = view /\ href' = href)]_vars

\* a guest's cart of two line items, stored on a document with neither the
\* badge nor the checkout container
C16_Witness ==
    /\ ~dom.count /\ ~dom.checkout
    /\ NoPrincipal
    /\ Readable
    /\ Len(Cart.val) = 2
    /\ badge = FreshBadge /\ view = BlankView
    /\ raised = "none" /\ href = ""


(***************************************************************************)
(* C17.  Whenever renderCheckout runs with the checkout container mounted  *)
(* and no active principal (on the load of the page, called directly, or   *)
(* at the end of saveCart), it navigates to login.html and renders nothing *)
(* into the container.                                                     *)
(***************************************************************************)
\* getCurrentUser() returns null
NoUser == getCurrentUser(localStorage) = [err |-> "none", kind |-> "null", val |-> << >>]

C17_CheckoutNeedsLogin ==
    [][NoUser =>
          /\ \A d \in DomKinds :
                (d.checkout /\ PageLoad(d)) =>
                   /\ href' = "login.html"
                   /\ view' = BlankView
                   /\ raised' = "none"
          /\ (Alive /\ dom.checkout) =>
                /\ RenderCheckoutCall =>
                      (href' = "login.html" /\ view' = view /\ raised' = "none")
                /\ \A id \in ProductIds :
                      RemoveItem(id) =>
                         (href' = "login.html" /\ view' = view /\ raised' = "none")]_vars

\* a visitor without principal has been sent to login.html from the checkout
\* page, the container empty although the guest entry holds a line item
C17_Witness ==
    /\ NoUser
    /\ dom.checkout
    /\ href = "login.html"
    /\ view = BlankView
    /\ Readable
    /\ Len(Cart.val) >= 1


(***************************************************************************)
(* C18.  After logout(), getCurrentUser() returns null and the navigation  *)
(* target is login.html, whether or not a user was active before the call; *)
(* logout throws nothing.                                                  *)
(***************************************************************************)
C18_Logout ==
    [][Logout =>
          /\ getCurrentUser(localStorage')
                = [err |-> "none", kind |-> "null", val |-> << >>]
          /\ href' = "login.html"
          /\ raised' = "none"
          /\ \A k \in DOMAIN localStorage \ { "activeUser" } :
                k \in DOMAIN localStorage' /\ localStorage'[k] = localStorage[k]]_vars

\* a registered user with a stored cart has logged out
C18_Witness ==
    /\ NoPrincipal
    /\ href = "login.html"
    /\ "users" \in DOMAIN localStorage
    /\ "fs_cart_a@x.io" \in DOMAIN localStorage
    /\ Len(localStorage["fs_cart_a@x.io"]) > 2


(***************************************************************************)
(* C19.  Placing an order clears the cart: when the place-order handler    *)
(* has finished, the entry of the current namespace is removed, getCart()  *)
(* is empty and cartCount() is 0, and the badge and the checkout view show *)
(* the empty cart, the redirect to store.html still to come.               *)
(***************************************************************************)
C19_PlaceOrderClears ==
    [][(HasPrincipal /\ PlaceOrderResume) =>
          /\ raised' = "none"
          /\ Key \notin DOMAIN localStorage'
          /\ SameExcept(Key)
          /\ CartAfter = [err |-> "none", kind |-> "array", val |-> << >>]
          /\ cartCount(localStorage') = [err |-> "none", count |-> 0]
          /\ dom.count => badge' = [text |-> "0", hidden |-> TRUE]
          /\ dom.checkout
          /\ view' = [kind |-> "empty", items |-> << >>]
          /\ msg' = [text |-> "Order placed successfully!", type |-> "success"]
          /\ href' = ""
          /\ "store.html" \in timers']_vars

\* an order has been placed on a page with the badge, the redirect pending
C19_Witness ==
    /\ msg.text = "Order placed successfully!"
    /\ HasPrincipal
    /\ Key \notin DOMAIN localStorage
    /\ dom.count
    /\ badge.hidden
    /\ view.kind = "empty"
    /\ "store.html" \in timers
    /\ href = ""


(***************************************************************************)
(* C20.  After a successful registration (the four fields present, the     *)
(* email well formed, the password of 6 characters or more, the email not  *)
(* yet registered) the new user record is appended to the stored users     *)
(* list and is the active principal: getCurrentUser() returns it.          *)
(***************************************************************************)
C20_Registration ==
    [][\A n \in Names, e \in Emails, p \in Passwords, a \in Addresses :
          (/\ validateEmail(e) /\ ~TooShort(p)
           /\ n # "" /\ a # ""
           /\ readUsers(localStorage).err = "none"
           /\ ~HasEmail(readUsers(localStorage).val, e)
           /\ Register(n, e, p, a)) =>
             /\ raised' = "none"
             /\ readUsers(localStorage')
                   = [err |-> "none", kind |-> "array",
                      val |-> Append(readUsers(localStorage).val,
                                     [name |-> n, email |-> e,
                                      password |-> p, address |-> a])]
             /\ getCurrentUser(localStorage')
                   = [err |-> "none", kind |-> "object",
                      val |-> [name |-> n, email |-> e,
                               password |-> p, address |-> a]]]_vars

\* a second user has just registered, behind the first in the users list
C20_Witness ==
    /\ readUsers(localStorage).err = "none"
    /\ Len(readUsers(localStorage).val) = 2
    /\ readUsers(localStorage).val[2].email = ActiveEmail(localStorage)
    /\ readUsers(localStorage).val[2].email = "a@x.io"
    /\ "index.html" \in timers
    /\ dom.page = "register"


(***************************************************************************)
(* C21.  readLS(key, fallback) reads storage safely: it returns the parsed *)
(* stored value when the key exists and the fallback when it does not,     *)
(* throwing nothing, for each fallback its callers pass: null, the string  *)
(* 'null', and the array [] of the 'users' reads.                          *)
(***************************************************************************)
\* the fallbacks of the callers, as written in the calls
Fallbacks == { "null", "'null'", "[]" }
\* the value a fallback stands for
FallbackValue(fallback) ==
    IF fallback = "[]" THEN [err |-> "none", kind |-> "array", val |-> << >>]
    ELSE [err |-> "none", kind |-> "null", val |-> << >>]

C21_ReadLSSafe ==
    \A key \in { "users", "activeUser" }, fallback \in Fallbacks :
       /\ readLS(localStorage, key, fallback).err = "none"
       /\ key \notin DOMAIN localStorage =>
             readLS(localStorage, key, fallback) = FallbackValue(fallback)
       /\ key \in DOMAIN localStorage =>
             readLS(localStorage, key, fallback).val
                = JSONparse(localStorage[key]).val


(***************************************************************************)
(* C22.  updateQuantity calls saveCart with the resulting sequence, which  *)
(* stores it and refreshes the badge and the checkout view, on both        *)
(* branches that find the item: quantity still positive, and item removed. *)
(* When the item is absent it returns without saveCart: storage, badge and *)
(* view stay as they were.                                                 *)
(***************************************************************************)
C22_UpdateSaves ==
    [][\A id \in ProductIds :
          /\ Has(Cart, id) =>
                \A delta \in Deltas :
                   UpdateQuantity(id, delta) =>
                      SaveCartCall(Changed(Cart.val, id, delta))
          /\ Lacks(Cart, id) =>
                \A delta \in Deltas :
                   UpdateQuantity(id, delta) =>
                      UNCHANGED << localStorage, badge, view, href >>]_vars

\* the only line item of a cart has been raised to the largest quantity on a
\* checkout page, badge and view showing it
C22_Witness ==
    /\ Readable
    /\ Len(Cart.val) = 1
    /\ Cart.val[1].qty = MaxQty
    /\ dom.count /\ dom.checkout
    /\ badge.text = ToString(MaxQty)
    /\ view = [kind |-> "items", items |-> Cart.val]
    /\ msg = NoMsg

\* C22 as first stated: saveCart is called on the branch of the absent item
\* too, with the cart as read
C22_SavesOnEveryBranch ==
    [][\A id \in ProductIds :
          Readable =>
             \A delta \in Deltas :
                UpdateQuantity(id, delta) =>
                   SaveCartCall(IF Holds(Cart.val, id)
                                THEN Changed(Cart.val, id, delta)
                                ELSE Cart.val)]_vars


\* the stored users list as the handlers read it
Users == AsArray(readUsers(localStorage))

(***************************************************************************)
(* C25.  Under registration, login, profile update, password reset and     *)
(* account deletion, no two records of the stored users list have the same *)
(* email.                                                                  *)
(***************************************************************************)
C25_EmailUnique ==
    /\ Users.err = "none"
    /\ \A i, j \in 1 .. Len(Users.val) :
          EmailOf(Users.val[i]) = EmailOf(Users.val[j]) => i = j

\* two users are registered, one renamed by a profile update and one with a
\* password set by a reset
C25_Witness ==
    /\ Users.err = "none"
    /\ Len(Users.val) = 2
    /\ \E i \in 1 .. 2 : Users.val[i].name \in NewNames
    /\ \E i \in 1 .. 2 : Users.val[i].password \in NewPasswords

(***************************************************************************)
(* C28.  Whenever localStorage has an activeUser entry, the stored users   *)
(* list has a record with the email of that entry; this includes a submit  *)
(* of the profile form after the click on the delete button and before the *)
(* delayed redirect.                                                       *)
(***************************************************************************)
C28_ActiveUserRegistered ==
    "activeUser" \in DOMAIN localStorage =>
       /\ Users.err = "none"
       /\ getCurrentUser(localStorage).kind = "object"
       /\ \E i \in 1 .. Len(Users.val) :
             EmailOf(Users.val[i]) = EmailOf(getCurrentUser(localStorage).val)


\* the step stores and refreshes as saveCart called with the cart now stored
SavedAsSaveCart ==
    /\ CartAfter.err = "none"
    /\ CartAfter.kind = "array"
    /\ localStorage' = saveCart(Begin(M), CartAfter.val).ls
    /\ badge' = saveCart(Begin(M), CartAfter.val).badge

(***************************************************************************)
(* C23.  Every step that changes a cart entry of storage is a step of a    *)
(* cart operation (addToCart, updateQuantity, removeItem, the checkout     *)
(* buttons) that stores through saveCart, except the continuation of the   *)
(* place-order handler, which removes the entry of the namespace itself    *)
(* with localStorage.removeItem.  Registration, login, logout and account  *)
(* deletion change no cart entry.                                          *)
(***************************************************************************)
C23_WritePaths ==
    [][CartEntries(localStorage') # CartEntries(localStorage) =>
          \/ /\ SavedAsSaveCart
             /\ \/ \E product \in Catalog : AddToCart(product)
                \/ \E id \in ProductIds, change \in Deltas : UpdateQuantity(id, change)
                \/ \E id \in ProductIds : RemoveItem(id)
                \/ \E id \in ProductIds, b \in Buttons : CheckoutClick(id, b)
          \/ /\ PlaceOrderResume
             /\ localStorage' = removeKey(localStorage, Key)]_vars

\* the account is deleted on the profile page, the redirect pending, and the
\* items of its cart are still stored
C23_Witness ==
    /\ dom.page = "profile"
    /\ "index.html" \in timers
    /\ NoPrincipal
    /\ Users.val = << >>
    /\ \E e \in OneEmail :
          /\ "fs_cart_" \o e \in DOMAIN localStorage
          /\ StoredFor(localStorage, e).err = "none"
          /\ Len(StoredFor(localStorage, e).val) > 0

\* C23 as first stated: every step that changes or removes a cart entry is a
\* saveCart call
C23_SaveCartOnly ==
    [][CartEntries(localStorage') # CartEntries(localStorage) => SavedAsSaveCart]_vars


(***************************************************************************)
(* C29.  From empty storage, under the operations of the user interface    *)
(* (register, login, logout, addToCart, updateQuantity, removeItem, place  *)
(* order), the entry of the guest namespace, when there is one, is a cart  *)
(* with no line item.                                                      *)
(***************************************************************************)
C29_GuestCartEmpty ==
    "fs_cart_guest" \in DOMAIN localStorage =>
       /\ StoredFor(localStorage, "guest").err = "none"
       /\ StoredFor(localStorage, "guest").kind = "array"
       /\ StoredFor(localStorage, "guest").val = << >>

\* a guest has removed an item, which stored the guest entry, while the cart
\* of a registered user holds an item
C29_Witness ==
    /\ NoPrincipal
    /\ "fs_cart_guest" \in DOMAIN localStorage
    /\ \E e \in OneEmail :
          /\ "fs_cart_" \o e \in DOMAIN localStorage
          /\ Len(StoredFor(localStorage, e).val) > 0


\* the record a login with the email and the password matches, 0 for none
Match(email, password) ==
    IF Users.err = "none" THEN FindUser(Users.val, email, password, 1) ELSE 0

(***************************************************************************)
(* C30.  After the submit of the login form with an email and a password   *)
(* that match a stored user, handled by initLoginPage of password.js (and, *)
(* on the same event, by the listener of auth.js), getCurrentUser()        *)
(* returns the matched user, the remember-me box checked or not; after a   *)
(* submit that matches no user it returns what it returned before.         *)
(***************************************************************************)
C30_LoginSetsPrincipal ==
    [][(Alive /\ dom.page = "login") =>
          \A e \in Emails, p \in Passwords \cup NewPasswords, r \in BOOLEAN :
             LoginSubmit(e, p, r) =>
                IF Match(e, p) # 0
                THEN getCurrentUser(localStorage')
                        = [err |-> "none", kind |-> "object",
                           val |-> Users.val[Match(e, p)]]
                ELSE getCurrentUser(localStorage') = getCurrentUser(localStorage)]_vars

\* a user has logged in with the remember-me box unchecked: the session entry
\* of password.js and the stored entry of auth.js are both written
C30_Witness ==
    /\ dom.page = "login"
    /\ "index.html" \in timers
    /\ "activeUser" \in DOMAIN sessionStorage
    /\ "activeUser" \in DOMAIN localStorage
    /\ localStorage["activeUser"] = sessionStorage["activeUser"]
    /\ "rememberedEmail" \notin DOMAIN localStorage


\* whether the operation of a read stores a cart, and the cart it stores: the
\* operation applied to the cart that was read
Stores(r) ==
    IF r.op = "add" THEN Truthy(r.user) /\ Lacks(r.cart, r.id)
    ELSE IF r.op = "update" THEN Has(r.cart, r.id)
    ELSE r.cart.err = "none"
Outcome(r) ==
    IF r.op = "add"
    THEN Append(r.cart.val, [id |-> r.id, price |-> ProductOf(r.id).price, qty |-> 1])
    ELSE IF r.op = "update" THEN Changed(r.cart.val, r.id, r.change)
    ELSE Without(r.cart.val, r.id)

(***************************************************************************)
(* C24.  Two tabs interleave the read step and the write step of their     *)
(* cart operations on one namespace.  Every write step that stores stores  *)
(* the whole result of the operation of its tab applied to the cart that   *)
(* tab read, as the entry of the namespace and nothing else; a write step  *)
(* that does not store leaves storage as it was; and what is stored is a   *)
(* well-formed cart: no id twice, every qty at least 1.  (The edit of the  *)
(* other tab made between the two steps is what may be lost.)              *)
(***************************************************************************)
C24_WholeCartWrites ==
    [][\A t \in Tabs :
          (reads[t].op # "none" /\ reads'[t].op = "none") =>
             /\ IF Stores(reads[t])
                THEN StoredAt(Key, Outcome(reads[t]))
                ELSE localStorage' = localStorage
             /\ CartAfter.err = "none" /\ CartAfter.kind = "array"
             /\ UniqueIds(CartAfter.val)
             /\ PositiveQtys(CartAfter.val)]_vars

\* the other tab has read the cart with the item at quantity 1 and not yet
\* written; this tab has since raised the item to quantity 2 and shows it
C24_Witness ==
    /\ reads["other"].op = "update"
    /\ reads["other"].cart.val # << >>
    /\ reads["other"].cart.val[1].qty = 1
    /\ Readable
    /\ Cart.val # << >>
    /\ Cart.val[1].qty = 2
    /\ view = [kind |-> "items", items |-> Cart.val]


(***************************************************************************)
(* C26.  The entry the place-order handler removes after its 1.2 s wait is *)
(* the entry of the namespace that was current when its button was         *)
(* clicked, whatever happened during the wait (a logout, another user      *)
(* becoming active, a second click): that entry is gone after the step and *)
(* every other cart entry is as it was.                                    *)
(***************************************************************************)
C26_RemovesClickedNamespace ==
    [][(placing > 0 /\ clicked # << >> /\ PlaceOrderResume) =>
          (Head(clicked).err = "none" =>
              CartEntries(localStorage')
                 = removeKey(CartEntries(localStorage), Head(clicked).key))]_vars

====
